---- MODULE Spec2Model ----
(***************************************************************************)
(* The X-Ray tracing core of DecisionLens: the XRay facade, the Run and    *)
(* Step handles and the SQLite store behind them.                          *)
(*                                                                         *)
(* Python values are tagged records [t, v] so that None, strings, numbers, *)
(* mappings and sequences stay distinguishable: None and "" and {} and []  *)
(* are four different values, all of them falsy.                           *)
(***************************************************************************)
EXTENDS Integers, Sequences, FiniteSets, TLC

\* ----- bounds of the model ------------------------------------------------
\* run scopes and step scopes (over all runs) entered in Spec
MaxRuns == 1
MaxSteps == 2
\* run scopes entered and ticks of the clock in TimedSpec
MaxTimedRuns == 2
MaxClock == 1
\* run scopes and step scopes entered in EvalSpec, OutputSpec and HandleSpec,
\* evaluation records the body of one step adds
MaxDataRuns == 2
MaxDataSteps == 1
MaxEvals == 3
\* setter calls on a handle after its scope was left, in HandleSpec
MaxLate == 1
\* identifiers the callers of the store use in StoreSpec
MaxStoreIds == 2
\* ticks of the clock in one second: a timestamp on a whole second has no
\* fraction in its text
TicksPerSecond == 2
\* run identifiers, ticks of the clock and largest limit in ListSpec
MaxListRuns == 3
MaxListClock == 3
MaxLimit == 3
\* largest step index a caller of create_step passes in GetSpec
MaxIndex == 1
\* run scopes and step scopes (over all runs) entered in InterleaveSpec
MaxPairRuns == 2
MaxPairSteps == 3
\* step() calls made on one run handle by concurrent callers in RaceSpec
MaxRaceCalls == 3

\* ----- Python values --------------------------------------------------------
PyNone == [t |-> "none", v |-> <<>>]
Str(s) == [t |-> "str", v |-> s]
Num(n) == [t |-> "int", v |-> n]
\* a mapping is the sequence of its <<key, value>> items, in insertion order
Dict(items) == [t |-> "dict", v |-> items]
\* a sequence of mappings
List(elems) == [t |-> "list", v |-> elems]
\* a JSON text is the sequence of its tokens
Text(toks) == [t |-> "text", v |-> toks]
\* an exception instance: its class and its message
Exc(cls, msg) == [t |-> "exc", v |-> <<cls, msg>>]

\* bool(x) of Python: None, "", {} and [] are falsy
Truthy(x) ==
    CASE x.t = "none" -> FALSE
      [] x.t = "str" -> x.v # ""
      [] x.t = "dict" -> Len(x.v) > 0
      [] x.t = "list" -> Len(x.v) > 0
      [] x.t = "text" -> Len(x.v) > 0
      [] OTHER -> TRUE

\* x or y of Python
Or(x, y) == IF Truthy(x) THEN x ELSE y

\* str(e)
StrOf(e) == Str(e.v[2])

\* isinstance(e, Exception): KeyboardInterrupt and its kin are not
IsException(e) == e.t = "exc" /\ e.v[1] # "BaseException"

\* ----- inputs ---------------------------------------------------------------
EmptyDict == Dict(<<>>)
DictA == Dict(<< <<"a", "1">> >>)
DictB == Dict(<< <<"b", "2">> >>)
Names == {"n"}
Metadatas == {PyNone, DictA}
Inputs == {PyNone, DictA}
Reasonings == {PyNone}
Outputs == {EmptyDict, DictA}
Evals == {DictA, DictB}
EvalLists == {List(<<>>), List(<<DictB, DictA>>)}
BodyExcs == {Exc("Exception", "boom"), Exc("Exception", ""),
             Exc("BaseException", "interrupt")}
\* what sqlite3 raises when a statement cannot be executed
OperationalError == Exc("OperationalError", "database is locked")
IntegrityError == Exc("IntegrityError", "UNIQUE constraint failed")

\* ----- json.dumps / json.loads ----------------------------------------------
RECURSIVE DumpItems(_)
DumpItems(items) ==
    IF Len(items) = 0 THEN <<>>
    ELSE <<items[1][1], ":", items[1][2]>>
         \o (IF Len(items) > 1 THEN <<",">> ELSE <<>>)
         \o DumpItems(Tail(items))

DumpDict(d) == <<"{">> \o DumpItems(d.v) \o <<"}">>

RECURSIVE DumpElems(_)
DumpElems(elems) ==
    IF Len(elems) = 0 THEN <<>>
    ELSE DumpDict(elems[1])
         \o (IF Len(elems) > 1 THEN <<",">> ELSE <<>>)
         \o DumpElems(Tail(elems))

Dumps(x) ==
    CASE x.t = "dict" -> Text(DumpDict(x))
      [] x.t = "list" -> Text(<<"[">> \o DumpElems(x.v) \o <<"]">>)
      [] OTHER -> Text(<<"null">>)

\* parse the items of a mapping from position i (just after "{" or ","),
\* giving the items and the position after the closing "}"
RECURSIVE ParseItems(_, _)
ParseItems(toks, i) ==
    IF toks[i] = "}" THEN [val |-> <<>>, next |-> i + 1]
    ELSE LET rest == ParseItems(toks, IF toks[i + 3] = "," THEN i + 4 ELSE i + 3)
         IN [val |-> << <<toks[i], toks[i + 2]>> >> \o rest.val, next |-> rest.next]

RECURSIVE ParseElems(_, _)
ParseElems(toks, i) ==
    IF toks[i] = "]" THEN [val |-> <<>>, next |-> i + 1]
    ELSE LET d == ParseItems(toks, i + 1)
             rest == ParseElems(toks, IF toks[d.next] = "," THEN d.next + 1 ELSE d.next)
         IN [val |-> <<Dict(d.val)>> \o rest.val, next |-> rest.next]

Loads(text) ==
    CASE text.v[1] = "{" -> Dict(ParseItems(text.v, 2).val)
      [] text.v[1] = "[" -> List(ParseElems(text.v, 2).val)
      [] OTHER -> PyNone

\* datetime.isoformat(): the text of a timestamp, the seconds and then the
\* fraction of a second, which is left out when it is zero
Iso(ts) ==
    [t |-> "iso",
     v |-> IF ts % TicksPerSecond = 0 THEN <<ts \div TicksPerSecond>>
           ELSE <<ts \div TicksPerSecond, ts % TicksPerSecond>>]

\* a < b for two texts, as SQLite compares TEXT values: position by position,
\* a proper prefix coming first
RECURSIVE TextLess(_, _)
TextLess(a, b) ==
    IF Len(b) = 0 THEN FALSE
    ELSE IF Len(a) = 0 THEN TRUE
    ELSE IF a[1] # b[1] THEN a[1] < b[1]
    ELSE TextLess(Tail(a), Tail(b))

\* ----- the SQLite store: tables runs and steps ------------------------------
\* Every store operation gives the exception it raises (PyNone when it
\* returns) and the table it leaves; a statement that fails leaves the table
\* as it was, each call being its own transaction.

\* INSERT OR REPLACE INTO runs
create_run_replace(tbl, run_id, name, metadata, ts) ==
    [raised |-> PyNone,
     tbl |-> {row \in tbl : row.id # run_id}
             \cup {[id |-> run_id, name |-> name, started_at |-> Iso(ts),
                    ended_at |-> PyNone, duration_ms |-> PyNone,
                    status |-> "running", metadata |-> Dumps(metadata),
                    error |-> PyNone]}]

\* INSERT INTO runs: id is the primary key
create_run(tbl, run_id, name, metadata, ts) ==
    IF \E row \in tbl : row.id = run_id
    THEN [raised |-> IntegrityError, tbl |-> tbl]
    ELSE [raised |-> PyNone,
          tbl |-> tbl \cup {[id |-> run_id, name |-> name, started_at |-> Iso(ts),
                             ended_at |-> PyNone, duration_ms |-> PyNone,
                             status |-> "running", metadata |-> Dumps(metadata),
                             error |-> PyNone]}]

\* finish_run without its WHERE clause
finish_run_all_rows(tbl, a) ==
    [raised |-> PyNone,
     tbl |-> {[row EXCEPT !.ended_at = Iso(a.ended_at),
                          !.duration_ms = Num(a.duration_ms),
                          !.status = a.status, !.error = a.error] : row \in tbl}]

\* finish_run inserting a row when no row has the id
finish_run_upsert(tbl, a) ==
    [raised |-> PyNone,
     tbl |-> IF \E row \in tbl : row.id = a.run_id
             THEN {IF row.id = a.run_id
                   THEN [row EXCEPT !.ended_at = Iso(a.ended_at),
                                    !.duration_ms = Num(a.duration_ms),
                                    !.status = a.status, !.error = a.error]
                   ELSE row : row \in tbl}
             ELSE tbl \cup {[id |-> a.run_id, name |-> "", started_at |-> Iso(a.ended_at),
                              ended_at |-> Iso(a.ended_at),
                              duration_ms |-> Num(a.duration_ms), status |-> a.status,
                              metadata |-> PyNone, error |-> a.error]}]

\* UPDATE runs ... WHERE id = ?
finish_run(tbl, a) ==
    [raised |-> PyNone,
     tbl |-> {IF row.id = a.run_id
              THEN [row EXCEPT !.ended_at = Iso(a.ended_at),
                               !.duration_ms = Num(a.duration_ms),
                               !.status = a.status, !.error = a.error]
              ELSE row : row \in tbl}]

\* INSERT INTO steps: id is the primary key; the foreign key on run_id is
\* declared but not enforced (the connection never enables foreign_keys)
create_step(tbl, step_id, run_id, name, index, input_data, reasoning, ts) ==
    IF \E row \in tbl : row.id = step_id
    THEN [raised |-> IntegrityError, tbl |-> tbl]
    ELSE [raised |-> PyNone,
          tbl |-> tbl \cup {[id |-> step_id, run_id |-> run_id, name |-> name,
                             step_index |-> index, started_at |-> Iso(ts),
                             ended_at |-> PyNone, duration_ms |-> PyNone,
                             status |-> "running", input |-> Dumps(input_data),
                             output |-> PyNone, reasoning |-> reasoning,
                             filters_applied |-> PyNone, evaluations |-> PyNone,
                             error |-> PyNone]}]

\* finish_step raising when no row has the id
finish_step_strict(tbl, a) ==
    IF \E row \in tbl : row.id = a.step_id
    THEN [raised |-> PyNone,
          tbl |-> {IF row.id = a.step_id
                   THEN [row EXCEPT !.ended_at = Iso(a.ended_at),
                                    !.duration_ms = Num(a.duration_ms),
                                    !.status = a.status, !.error = a.error]
                   ELSE row : row \in tbl}]
    ELSE [raised |-> Exc("NotFoundError", "no such step"), tbl |-> tbl]

\* finish_step without status in its SET clause
finish_step_keep_status(tbl, a) ==
    [raised |-> PyNone,
     tbl |-> {IF row.id = a.step_id
              THEN [row EXCEPT !.ended_at = Iso(a.ended_at),
                               !.duration_ms = Num(a.duration_ms),
                               !.error = a.error]
              ELSE row : row \in tbl}]

\* UPDATE steps ... WHERE id = ?
finish_step(tbl, a) ==
    [raised |-> PyNone,
     tbl |-> {IF row.id = a.step_id
              THEN [row EXCEPT !.ended_at = Iso(a.ended_at),
                               !.duration_ms = Num(a.duration_ms),
                               !.status = a.status,
                               !.output = IF Truthy(a.output) THEN Dumps(a.output) ELSE PyNone,
                               !.filters_applied = IF Truthy(a.filters_applied)
                                                   THEN Dumps(a.filters_applied) ELSE PyNone,
                               !.evaluations = IF Truthy(a.evaluations)
                                               THEN Dumps(a.evaluations) ELSE PyNone,
                               !.error = a.error]
              ELSE row : row \in tbl}]

\* a statement the database cannot execute raises and changes nothing
Failing(tbl) == [raised |-> OperationalError, tbl |-> tbl]

\* ORDER BY step_index ASC: the sequences that list the rows once each in
\* ascending step_index; rows of equal step_index come in either order
RECURSIVE ByStepIndex(_)
ByStepIndex(rows) ==
    IF rows = {} THEN {<<>>}
    ELSE UNION {{<<row>> \o rest : rest \in ByStepIndex(rows \ {row})} :
                row \in {r \in rows : \A o \in rows : r.step_index <= o.step_index}}

\* the JSON columns of a step row as get_run decodes them
DecodeStep(row) ==
    [index |-> row.step_index] @@
    [row EXCEPT !.input = IF Truthy(row.input) THEN Loads(row.input) ELSE EmptyDict,
                !.output = IF Truthy(row.output) THEN Loads(row.output) ELSE EmptyDict,
                !.filters_applied = IF Truthy(row.filters_applied)
                                    THEN Loads(row.filters_applied) ELSE PyNone,
                !.evaluations = IF Truthy(row.evaluations)
                                THEN Loads(row.evaluations) ELSE PyNone]

DecodeRun(row) ==
    [row EXCEPT !.metadata = IF Truthy(row.metadata) THEN Loads(row.metadata) ELSE EmptyDict]

\* ORDER BY started_at DESC: the sequences that list the rows once each, no
\* row before one of a greater started_at
RECURSIVE ByStartedAtDesc(_)
ByStartedAtDesc(rows) ==
    IF rows = {} THEN {<<>>}
    ELSE UNION {{<<row>> \o rest : rest \in ByStartedAtDesc(rows \ {row})} :
                row \in {r \in rows :
                            \A o \in rows : ~ TextLess(r.started_at.v, o.started_at.v)}}

\* LIMIT ?: the first limit rows, all of them when limit is negative
Limit(ord, limit) ==
    IF limit < 0 \/ limit >= Len(ord) THEN ord ELSE SubSeq(ord, 1, limit)

\* list_runs with the rows in ascending started_at
list_runs_oldest_first(tbl, limit) ==
    {[i \in DOMAIN Limit(ord, limit) |->
         DecodeRun(ord[Len(ord) + 1 - i])] : ord \in ByStartedAtDesc(tbl)}

\* list_runs(limit): the results the SELECT can give, each row with its
\* metadata decoded
list_runs(tbl, limit) ==
    {[i \in DOMAIN Limit(ord, limit) |-> DecodeRun(Limit(ord, limit)[i])] :
     ord \in ByStartedAtDesc(tbl)}

\* get_run without the WHERE run_id = ? of its second SELECT
get_run_all_steps(runTbl, stepTbl, run_id) ==
    IF ~ \E row \in runTbl : row.id = run_id THEN {PyNone}
    ELSE {[t |-> "run", v |-> DecodeRun(row),
           steps |-> [i \in DOMAIN ord |-> DecodeStep(ord[i])]] :
          row \in {r \in runTbl : r.id = run_id},
          ord \in ByStepIndex(stepTbl)}

\* get_run(run_id): the results the two SELECTs can give, PyNone when no run
\* row has the id
get_run(runTbl, stepTbl, run_id) ==
    IF ~ \E row \in runTbl : row.id = run_id THEN {PyNone}
    ELSE {[t |-> "run", v |-> DecodeRun(row),
           steps |-> [i \in DOMAIN ord |-> DecodeStep(ord[i])]] :
          row \in {r \in runTbl : r.id = run_id},
          ord \in ByStepIndex({s \in stepTbl : s.run_id = run_id})}

\* ----- the Run and Step handles ---------------------------------------------
\* Run.__init__ with the counter starting at 1
Run_from_one(run_id, name, metadata, ts) ==
    [run_id |-> run_id, name |-> name, metadata |-> metadata,
     step_index |-> 1, started_at |-> ts, error |-> PyNone]

\* Run.__init__
Run(run_id, name, metadata, ts) ==
    [run_id |-> run_id, name |-> name, metadata |-> metadata,
     step_index |-> 0, started_at |-> ts, error |-> PyNone]

\* Run._set_error
Run_set_error(h, error) == [h EXCEPT !.error = error]

\* Run._finish with the two timestamps of the subtraction exchanged
Run_finish_backwards(h, ts) ==
    [run_id |-> h.run_id, ended_at |-> ts, duration_ms |-> h.started_at - ts,
     status |-> IF Truthy(h.error) THEN "error" ELSE "success",
     error |-> h.error]

\* Run._finish: the arguments it passes to store.finish_run
Run_finish(h, ts) ==
    [run_id |-> h.run_id, ended_at |-> ts, duration_ms |-> ts - h.started_at,
     status |-> IF Truthy(h.error) THEN "error" ELSE "success",
     error |-> h.error]

\* Step.__init__
Step(step_id, run_id, name, index, input_data, reasoning, ts) ==
    [step_id |-> step_id, run_id |-> run_id, name |-> name, index |-> index,
     input_data |-> input_data, reasoning |-> reasoning, started_at |-> ts,
     output |-> PyNone, filters_applied |-> PyNone, evaluations |-> List(<<>>),
     error |-> PyNone]

\* set_output keeping the value of the first call
set_output_first(h, output) == IF h.output = PyNone THEN [h EXCEPT !.output = output] ELSE h

set_output(h, output) == [h EXCEPT !.output = output]

set_filters(h, filters) == [h EXCEPT !.filters_applied = filters]

\* add_evaluation replacing the list by the new record
add_evaluation_replace(h, evaluation) == [h EXCEPT !.evaluations = List(<<evaluation>>)]

add_evaluation(h, evaluation) ==
    [h EXCEPT !.evaluations = List(Append(h.evaluations.v, evaluation))]

add_evaluations(h, evaluations) ==
    [h EXCEPT !.evaluations = List(h.evaluations.v \o evaluations.v)]

\* Step._set_error
Step_set_error(h, error) == [h EXCEPT !.error = error]

\* Step._finish passing the status the row already has
Step_finish_running(h, ts) ==
    [step_id |-> h.step_id, ended_at |-> ts, duration_ms |-> ts - h.started_at,
     status |-> "running",
     output |-> h.output, filters_applied |-> h.filters_applied,
     evaluations |-> IF Truthy(h.evaluations) THEN h.evaluations ELSE PyNone,
     error |-> h.error]

\* Step._finish: the arguments it passes to store.finish_step
Step_finish(h, ts) ==
    [step_id |-> h.step_id, ended_at |-> ts, duration_ms |-> ts - h.started_at,
     status |-> IF Truthy(h.error) THEN "error" ELSE "success",
     output |-> h.output, filters_applied |-> h.filters_applied,
     evaluations |-> IF Truthy(h.evaluations) THEN h.evaluations ELSE PyNone,
     error |-> h.error]

\* Run.step handing out the index without moving the counter on
AllocIndex_stuck(h) == [index |-> h.step_index, run |-> h]

\* Run.step, the two statements before the Step is constructed: the index
\* the step gets and the handle with its counter moved on
AllocIndex(h) == [index |-> h.step_index, run |-> [h EXCEPT !.step_index = @ + 1]]

\* a store call as the scope that issued it saw it
Call(op, id, res) == [op |-> op, id |-> id, ok |-> res.raised = PyNone]

\* Run.step finishing the step only when the body returned
StepCleanup_else(h, outcome, tbl, ts, io) ==
    LET step == IF IsException(outcome) THEN Step_set_error(h, StrOf(outcome)) ELSE h
        fs == IF io THEN Failing(tbl) ELSE finish_step(tbl, Step_finish(step, ts))
    IN IF outcome = PyNone
       THEN [handle |-> step, tbl |-> fs.tbl,
             out |-> IF fs.raised = PyNone THEN outcome ELSE fs.raised,
             calls |-> <<[op |-> "finish_step", id |-> h.step_id, ok |-> fs.raised = PyNone]>>]
       ELSE [handle |-> step, tbl |-> tbl, out |-> outcome, calls |-> <<>>]

\* Run.step with the exception of the body surviving one raised by _finish
StepCleanup_body_first(h, outcome, tbl, ts, io) ==
    LET step == IF IsException(outcome) THEN Step_set_error(h, StrOf(outcome)) ELSE h
        fs == IF io THEN Failing(tbl) ELSE finish_step(tbl, Step_finish(step, ts))
    IN [handle |-> step, tbl |-> fs.tbl,
        out |-> IF outcome # PyNone THEN outcome ELSE fs.raised,
        calls |-> <<[op |-> "finish_step", id |-> h.step_id, ok |-> fs.raised = PyNone]>>]

\* Run.step, the except and finally clauses: outcome is what reached them
\* (PyNone when the body returned); io says whether the database fails
StepCleanup(h, outcome, tbl, ts, io) ==
    LET step == IF IsException(outcome) THEN Step_set_error(h, StrOf(outcome)) ELSE h
        fs == IF io THEN Failing(tbl) ELSE finish_step(tbl, Step_finish(step, ts))
    IN [handle |-> step, tbl |-> fs.tbl,
        out |-> IF fs.raised = PyNone THEN outcome ELSE fs.raised,
        calls |-> <<Call("finish_step", h.step_id, fs)>>]

\* XRay.run finishing the run in the except clause and again in the finally clause
RunCleanup_twice(h, outcome, tbl, ts, io, cur) ==
    LET run == IF IsException(outcome) THEN Run_set_error(h, StrOf(outcome)) ELSE h
        fr == IF io THEN Failing(tbl) ELSE finish_run(tbl, Run_finish(run, ts))
        once == <<[op |-> "finish_run", id |-> h.run_id, ok |-> fr.raised = PyNone]>>
    IN [handle |-> run, tbl |-> fr.tbl,
        out |-> IF fr.raised = PyNone THEN outcome ELSE fr.raised,
        calls |-> IF IsException(outcome) THEN once \o once ELSE once,
        current_run |-> IF fr.raised = PyNone THEN PyNone ELSE cur]

\* XRay.run, the except and finally clauses; cur is XRay._current_run, which
\* is reset only when run._finish() returns
RunCleanup(h, outcome, tbl, ts, io, cur) ==
    LET run == IF IsException(outcome) THEN Run_set_error(h, StrOf(outcome)) ELSE h
        fr == IF io THEN Failing(tbl) ELSE finish_run(tbl, Run_finish(run, ts))
    IN [handle |-> run, tbl |-> fr.tbl,
        out |-> IF fr.raised = PyNone THEN outcome ELSE fr.raised,
        calls |-> <<Call("finish_run", h.run_id, fr)>>,
        current_run |-> IF fr.raised = PyNone THEN PyNone ELSE cur]

\* ----- state ----------------------------------------------------------------
VARIABLES
    runs,         \* table runs of the store: a set of rows
    steps,        \* table steps of the store: a set of rows
    now,          \* what datetime.utcnow() returns
    nextRunId,    \* the next identifier uuid4 gives to a run
    nextStepId,   \* the next identifier uuid4 gives to a step
    current_run,  \* XRay._current_run: PyNone or the run handle's id
    runH,         \* the Run handles constructed, by run id
    stepH,        \* the Step handles constructed, by step id
    rscope,       \* where each XRay.run scope stands, and what it has done
    sscope,       \* where each Run.step scope stands, and what it has done
    reply         \* what the last call made on the store directly gave

vars == <<runs, steps, now, nextRunId, nextStepId, current_run, runH, stepH,
          rscope, sscope, reply>>

RunRef(run_id) == [t |-> "run", v |-> run_id]

Init ==
    /\ runs = {}
    /\ steps = {}
    /\ now = 0
    /\ nextRunId = 1
    /\ nextStepId = 1
    /\ current_run = PyNone
    /\ runH = <<>>
    /\ stepH = <<>>
    /\ rscope = <<>>
    /\ sscope = <<>>
    /\ reply = PyNone

\* time passes
Tick ==
    /\ now' = now + 1
    /\ UNCHANGED <<runs, steps, nextRunId, nextStepId, current_run, runH, stepH,
                   rscope, sscope, reply>>

\* the steps of run handle r whose scope is open
OpenSteps(r) == {s \in DOMAIN stepH : stepH[s].run_id = r /\ sscope[s].pc = "open"}

\* with xray.run(name, metadata) as run: the scope is entered.  When
\* create_run raises, the except clause and the finally clause run before
\* the with statement is left, and the body never runs.
XRayRunEnter(name, metadata, io, io2) ==
    /\ LET run_id == nextRunId
           run == Run(run_id, name, Or(metadata, EmptyDict), now)
           cr == IF io THEN Failing(runs)
                 ELSE create_run(runs, run_id, name, Or(metadata, EmptyDict), now)
           fin == RunCleanup(run, cr.raised, cr.tbl, now, io2, current_run)
       IN IF cr.raised = PyNone
          THEN /\ runs' = cr.tbl
               /\ current_run' = RunRef(run_id)
               /\ runH' = runH @@ (run_id :> run)
               /\ rscope' = rscope @@ (run_id :>
                     [pc |-> "body", entered |-> TRUE, arg |-> metadata, exc |-> PyNone,
                      raised |-> PyNone, out |-> PyNone,
                      calls |-> <<Call("create_run", run_id, cr)>>])
          ELSE /\ runs' = fin.tbl
               /\ current_run' = fin.current_run
               /\ runH' = runH @@ (run_id :> fin.handle)
               /\ rscope' = rscope @@ (run_id :>
                     [pc |-> "exited", entered |-> FALSE, arg |-> metadata, exc |-> PyNone,
                      raised |-> PyNone, out |-> fin.out,
                      calls |-> <<Call("create_run", run_id, cr)>> \o fin.calls])
    /\ nextRunId' = nextRunId + 1
    /\ UNCHANGED <<steps, now, nextStepId, stepH, sscope, reply>>

\* the body of the run scope returns (outcome PyNone) or raises; an exception
\* that came out of a step scope and was not caught is the one it raises
XRayRunExit(r, outcome, io) ==
    /\ r \in DOMAIN rscope
    /\ rscope[r].pc = "body"
    /\ OpenSteps(r) = {}
    /\ rscope[r].exc # PyNone => outcome = rscope[r].exc
    /\ LET fin == RunCleanup(runH[r], outcome, runs, now, io, current_run)
       IN /\ runs' = fin.tbl
          /\ runH' = [runH EXCEPT ![r] = fin.handle]
          /\ current_run' = fin.current_run
          /\ rscope' = [rscope EXCEPT ![r] =
                [@ EXCEPT !.pc = "exited", !.exc = PyNone, !.raised = outcome,
                          !.out = fin.out, !.calls = @ \o fin.calls]]
    /\ UNCHANGED <<steps, now, nextRunId, nextStepId, stepH, sscope, reply>>

\* the body of the run scope catches the exception that came out of a step
RunBodyCatch(r) ==
    /\ r \in DOMAIN rscope
    /\ rscope[r].pc = "body"
    /\ rscope[r].exc # PyNone
    /\ rscope' = [rscope EXCEPT ![r].exc = PyNone]
    /\ UNCHANGED <<runs, steps, now, nextRunId, nextStepId, current_run, runH, stepH,
                   sscope, reply>>

\* what a step scope has done when it is entered
NewScope == [pc |-> "open", entered |-> TRUE, raised |-> PyNone, out |-> PyNone,
             calls |-> <<>>, arg |-> PyNone, added |-> <<>>, evalsPassed |-> FALSE,
             lastOutput |-> PyNone, outputArgs |-> {},
             lastFilters |-> PyNone, filterArgs |-> {}, late |-> 0]

\* with run.step(name, input_data, reasoning) as step: the scope is entered.
\* When create_step raises, the except clause and the finally clause run and
\* the exception reaches the body of the run scope.
RunStepEnter(r, name, input_data, reasoning, io, io2) ==
    /\ r \in DOMAIN rscope
    /\ rscope[r].pc = "body"
    /\ rscope[r].exc = PyNone
    /\ OpenSteps(r) = {}
    /\ LET step_id == nextStepId
           alloc == AllocIndex(runH[r])
           step == Step(step_id, r, name, alloc.index, Or(input_data, EmptyDict),
                        reasoning, now)
           cs == IF io THEN Failing(steps)
                 ELSE create_step(steps, step_id, r, name, alloc.index,
                                  Or(input_data, EmptyDict), reasoning, now)
           fin == StepCleanup(step, cs.raised, cs.tbl, now, io2)
       IN /\ runH' = [runH EXCEPT ![r] = alloc.run]
          /\ IF cs.raised = PyNone
             THEN /\ steps' = cs.tbl
                  /\ stepH' = stepH @@ (step_id :> step)
                  /\ sscope' = sscope @@ (step_id :>
                        [NewScope EXCEPT !.arg = input_data,
                                         !.calls = <<Call("create_step", step_id, cs)>>])
                  /\ rscope' = rscope
             ELSE /\ steps' = fin.tbl
                  /\ stepH' = stepH @@ (step_id :> fin.handle)
                  /\ sscope' = sscope @@ (step_id :>
                        [NewScope EXCEPT !.pc = "closed", !.entered = FALSE, !.out = fin.out,
                                         !.arg = input_data,
                                         !.calls = <<Call("create_step", step_id, cs)>>
                                                   \o fin.calls])
                  /\ rscope' = [rscope EXCEPT ![r].exc = fin.out]
    /\ nextStepId' = nextStepId + 1
    /\ UNCHANGED <<runs, now, nextRunId, current_run, reply>>

\* the body of the step scope returns (outcome PyNone) or raises
RunStepExit(s, outcome, io) ==
    /\ s \in DOMAIN sscope
    /\ sscope[s].pc = "open"
    /\ LET fin == StepCleanup(stepH[s], outcome, steps, now, io)
       IN /\ steps' = fin.tbl
          /\ stepH' = [stepH EXCEPT ![s] = fin.handle]
          /\ sscope' = [sscope EXCEPT ![s] =
                [@ EXCEPT !.pc = "closed", !.raised = outcome, !.out = fin.out,
                          !.calls = @ \o fin.calls]]
          /\ rscope' = [rscope EXCEPT ![stepH[s].run_id].exc = fin.out]
    /\ UNCHANGED <<runs, now, nextRunId, nextStepId, current_run, runH, reply>>

\* the caller holds the handle of every step scope it has entered, and can
\* call its setters while the scope is open and after it
Held(s) == s \in DOMAIN sscope /\ sscope[s].entered

IsOpen(s) == sscope[s].pc = "open"

StepSetOutput(s, output) ==
    /\ Held(s)
    /\ stepH' = [stepH EXCEPT ![s] = set_output(@, output)]
    /\ sscope' = IF IsOpen(s)
                 THEN [sscope EXCEPT ![s].lastOutput = output,
                                     ![s].outputArgs = @ \cup {output}]
                 ELSE [sscope EXCEPT ![s].late = @ + 1]
    /\ UNCHANGED <<runs, steps, now, nextRunId, nextStepId, current_run, runH, rscope,
                   reply>>

StepSetFilters(s, filters) ==
    /\ Held(s)
    /\ stepH' = [stepH EXCEPT ![s] = set_filters(@, filters)]
    /\ sscope' = IF IsOpen(s)
                 THEN [sscope EXCEPT ![s].lastFilters = filters,
                                     ![s].filterArgs = @ \cup {filters}]
                 ELSE [sscope EXCEPT ![s].late = @ + 1]
    /\ UNCHANGED <<runs, steps, now, nextRunId, nextStepId, current_run, runH, rscope,
                   reply>>

StepAddEvaluation(s, evaluation) ==
    /\ Held(s)
    /\ stepH' = [stepH EXCEPT ![s] = add_evaluation(@, evaluation)]
    /\ sscope' = IF IsOpen(s)
                 THEN [sscope EXCEPT ![s].added = Append(@, evaluation),
                                     ![s].evalsPassed = TRUE]
                 ELSE [sscope EXCEPT ![s].late = @ + 1]
    /\ UNCHANGED <<runs, steps, now, nextRunId, nextStepId, current_run, runH, rscope,
                   reply>>

StepAddEvaluations(s, evaluations) ==
    /\ Held(s)
    /\ stepH' = [stepH EXCEPT ![s] = add_evaluations(@, evaluations)]
    /\ sscope' = IF IsOpen(s)
                 THEN [sscope EXCEPT ![s].added = @ \o evaluations.v,
                                     ![s].evalsPassed = TRUE]
                 ELSE [sscope EXCEPT ![s].late = @ + 1]
    /\ UNCHANGED <<runs, steps, now, nextRunId, nextStepId, current_run, runH, rscope,
                   reply>>

\* ----- Run.step statement by statement, for callers that run concurrently -----
\* a step() call that has not yet got its index
Allocating(s) == sscope[s].pc \in {"line41", "line42", "line42store"}

\* line 40: the call is made and gets its step_id; racing holds the calls on
\* the same handle that are getting their index at that moment
StepCallBegin(r) ==
    /\ r \in DOMAIN rscope
    /\ rscope[r].pc = "body"
    /\ sscope' = sscope @@ (nextStepId :>
          [pc |-> "line41", run_id |-> r, step_index |-> -1, loaded |-> -1,
           racing |-> {s \in DOMAIN sscope : sscope[s].run_id = r /\ Allocating(s)}])
    /\ nextStepId' = nextStepId + 1
    /\ UNCHANGED <<runs, steps, now, nextRunId, current_run, runH, stepH, rscope, reply>>

\* line 41: step_index = self._step_index
StepReadIndex(s) ==
    /\ s \in DOMAIN sscope
    /\ sscope[s].pc = "line41"
    /\ sscope' = [sscope EXCEPT ![s].pc = "line42",
                                ![s].step_index = runH[sscope[s].run_id].step_index]
    /\ UNCHANGED <<runs, steps, now, nextRunId, nextStepId, current_run, runH, stepH,
                   rscope, reply>>

\* self._step_index += 1 with the 1 left out
Incremented_not(n) == n

\* the value self._step_index += 1 stores for the value it loaded
Incremented(n) == n + 1

\* line 42, first half: the attribute is loaded
StepLoadCounter(s) ==
    /\ s \in DOMAIN sscope
    /\ sscope[s].pc = "line42"
    /\ sscope' = [sscope EXCEPT ![s].pc = "line42store",
                                ![s].loaded = runH[sscope[s].run_id].step_index]
    /\ UNCHANGED <<runs, steps, now, nextRunId, nextStepId, current_run, runH, stepH,
                   rscope, reply>>

\* line 42, second half: the attribute is stored
StepStoreCounter(s) ==
    /\ s \in DOMAIN sscope
    /\ sscope[s].pc = "line42store"
    /\ runH' = [runH EXCEPT ![sscope[s].run_id].step_index = Incremented(sscope[s].loaded)]
    /\ sscope' = [sscope EXCEPT ![s].pc = "line44"]
    /\ UNCHANGED <<runs, steps, now, nextRunId, nextStepId, current_run, stepH,
                   rscope, reply>>

\* lines 44-62: the Step is constructed and its row created
StepCreate(s, name, input_data, reasoning) ==
    /\ s \in DOMAIN sscope
    /\ sscope[s].pc = "line44"
    /\ LET r == sscope[s].run_id
           step == Step(s, r, name, sscope[s].step_index, Or(input_data, EmptyDict),
                        reasoning, now)
           cs == create_step(steps, s, r, name, sscope[s].step_index,
                             Or(input_data, EmptyDict), reasoning, now)
       IN /\ steps' = cs.tbl
          /\ stepH' = stepH @@ (s :> step)
    /\ sscope' = [sscope EXCEPT ![s].pc = "open"]
    /\ UNCHANGED <<runs, now, nextRunId, nextStepId, current_run, runH, rscope, reply>>

\* ----- calls made on the store directly --------------------------------------
Replied(op, res) == [op |-> op, raised |-> res.raised]

StoreCreateRun(run_id, name, metadata) ==
    /\ LET res == create_run(runs, run_id, name, metadata, now)
       IN runs' = res.tbl /\ reply' = Replied("create_run", res)
    /\ UNCHANGED <<steps, now, nextRunId, nextStepId, current_run, runH, stepH,
                   rscope, sscope>>

StoreFinishRun(run_id, duration_ms, status, error) ==
    /\ LET res == finish_run(runs, [run_id |-> run_id, ended_at |-> now,
                                    duration_ms |-> duration_ms, status |-> status,
                                    error |-> error])
       IN runs' = res.tbl /\ reply' = Replied("finish_run", res)
    /\ UNCHANGED <<steps, now, nextRunId, nextStepId, current_run, runH, stepH,
                   rscope, sscope>>

StoreCreateStep(step_id, run_id, name, index, input_data, reasoning) ==
    /\ LET res == create_step(steps, step_id, run_id, name, index, input_data,
                              reasoning, now)
       IN steps' = res.tbl /\ reply' = Replied("create_step", res)
    /\ UNCHANGED <<runs, now, nextRunId, nextStepId, current_run, runH, stepH,
                   rscope, sscope>>

StoreFinishStep(step_id, duration_ms, status, output, error) ==
    /\ LET res == finish_step(steps, [step_id |-> step_id, ended_at |-> now,
                                      duration_ms |-> duration_ms, status |-> status,
                                      output |-> output, filters_applied |-> PyNone,
                                      evaluations |-> PyNone, error |-> error])
       IN steps' = res.tbl /\ reply' = Replied("finish_step", res)
    /\ UNCHANGED <<runs, now, nextRunId, nextStepId, current_run, runH, stepH,
                   rscope, sscope>>

\* what a query made on the store directly returned
Returned(op, arg, value) == [op |-> op, raised |-> PyNone, arg |-> arg, value |-> value]

StoreListRuns(limit) ==
    /\ \E value \in list_runs(runs, limit) : reply' = Returned("list_runs", limit, value)
    /\ UNCHANGED <<runs, steps, now, nextRunId, nextStepId, current_run, runH, stepH,
                   rscope, sscope>>

\* get_run deleting the steps it has read
StoreGetRun_deleting(run_id) ==
    /\ \E value \in get_run(runs, steps, run_id) : reply' = Returned("get_run", run_id, value)
    /\ steps' = {row \in steps : row.run_id # run_id}
    /\ UNCHANGED <<runs, now, nextRunId, nextStepId, current_run, runH, stepH,
                   rscope, sscope>>

StoreGetRun(run_id) ==
    /\ \E value \in get_run(runs, steps, run_id) : reply' = Returned("get_run", run_id, value)
    /\ UNCHANGED <<runs, steps, now, nextRunId, nextStepId, current_run, runH, stepH,
                   rscope, sscope>>

\* ----- specifications -------------------------------------------------------
Outcomes == {PyNone} \cup BodyExcs

\* the run and step lifecycle: scopes are entered and left, the store may
\* fail; the clock stands still
Next ==
    \/ \E name \in Names, io \in BOOLEAN, io2 \in BOOLEAN :
          nextRunId <= MaxRuns /\ XRayRunEnter(name, DictA, io, io2)
    \/ \E r \in DOMAIN rscope, io \in BOOLEAN :
          \E outcome \in Outcomes \cup {rscope[r].exc} : XRayRunExit(r, outcome, io)
    \/ \E r \in DOMAIN rscope : RunBodyCatch(r)
    \/ \E r \in DOMAIN rscope, name \in Names, reasoning \in Reasonings,
          io \in BOOLEAN, io2 \in BOOLEAN :
          nextStepId <= MaxSteps /\ RunStepEnter(r, name, DictA, reasoning, io, io2)
    \/ \E s \in DOMAIN sscope, outcome \in Outcomes, io \in BOOLEAN :
          RunStepExit(s, outcome, io)

Spec == Init /\ [][Next]_vars

\* run scopes while time passes, for every metadata; what the body does
\* between entering and leaving is left out
TimedNext ==
    \/ now < MaxClock /\ Tick
    \/ \E name \in Names, metadata \in Metadatas, io \in BOOLEAN, io2 \in BOOLEAN :
          nextRunId <= MaxTimedRuns /\ XRayRunEnter(name, metadata, io, io2)
    \/ \E r \in DOMAIN rscope, outcome \in Outcomes, io \in BOOLEAN :
          XRayRunExit(r, outcome, io)

TimedSpec == Init /\ [][TimedNext]_vars

\* the body of a step calls the setters of its handle, up to MaxEvals records
InBody(s, more) ==
    /\ Held(s)
    /\ IsOpen(s)
    /\ Len(stepH[s].evaluations.v) + more <= MaxEvals

\* the caller calls a setter of a handle whose scope it has left
AfterScope(s) ==
    /\ Held(s)
    /\ ~ IsOpen(s)
    /\ sscope[s].late < MaxLate

\* entering and leaving the scopes around the setter calls, the store working
DataScopes ==
    \/ \E name \in Names :
          nextRunId <= MaxDataRuns /\ XRayRunEnter(name, PyNone, FALSE, FALSE)
    \/ \E r \in DOMAIN rscope, name \in Names, reasoning \in Reasonings :
          nextStepId <= MaxDataSteps /\ RunStepEnter(r, name, DictA, reasoning, FALSE, FALSE)
    \/ \E s \in DOMAIN sscope, outcome \in {PyNone, Exc("Exception", "boom")} :
          RunStepExit(s, outcome, FALSE)

\* the body of a step records evaluations
EvalNext ==
    \/ DataScopes
    \/ \E s \in DOMAIN sscope, evaluation \in Evals :
          InBody(s, 1) /\ StepAddEvaluation(s, evaluation)
    \/ \E s \in DOMAIN sscope, evaluations \in EvalLists :
          InBody(s, Len(evaluations.v)) /\ StepAddEvaluations(s, evaluations)

EvalSpec == Init /\ [][EvalNext]_vars

\* the body of a step sets its output and its filters
OutputNext ==
    \/ DataScopes
    \/ \E s \in DOMAIN sscope, output \in Outputs :
          InBody(s, 0) /\ StepSetOutput(s, output)
    \/ \E s \in DOMAIN sscope, filters \in Outputs :
          InBody(s, 0) /\ StepSetFilters(s, filters)

OutputSpec == Init /\ [][OutputNext]_vars

\* every setter, called by the body of a step and by the caller after the scope
HandleNext ==
    \/ DataScopes
    \/ \E s \in DOMAIN sscope, output \in Outputs :
          (InBody(s, 0) \/ AfterScope(s)) /\ StepSetOutput(s, output)
    \/ \E s \in DOMAIN sscope, filters \in Outputs :
          (InBody(s, 0) \/ AfterScope(s)) /\ StepSetFilters(s, filters)
    \/ \E s \in DOMAIN sscope, evaluation \in Evals :
          (InBody(s, 1) \/ AfterScope(s)) /\ StepAddEvaluation(s, evaluation)
    \/ \E s \in DOMAIN sscope, evaluations \in EvalLists :
          (InBody(s, Len(evaluations.v)) \/ AfterScope(s)) /\ StepAddEvaluations(s, evaluations)

HandleSpec == Init /\ [][HandleNext]_vars

\* callers of the Store interface, with identifiers of their own choosing
StoreIds == 1..MaxStoreIds
Finals == {[status |-> "success", error |-> PyNone],
           [status |-> "error", error |-> Str("boom")]}

StoreNext ==
    \/ \E run_id \in StoreIds, name \in Names : StoreCreateRun(run_id, name, DictA)
    \/ \E run_id \in StoreIds, f \in Finals :
          StoreFinishRun(run_id, 0, f.status, f.error)
    \/ \E step_id \in StoreIds, run_id \in StoreIds, name \in Names,
          reasoning \in Reasonings :
          StoreCreateStep(step_id, run_id, name, 0, DictA, reasoning)
    \/ \E step_id \in StoreIds, f \in Finals :
          StoreFinishStep(step_id, 0, f.status, DictA, f.error)

StoreSpec == Init /\ [][StoreNext]_vars

\* every payload field of a run and of a step, given empty and not: the store
\* working, the bodies returning
RoundTripNext ==
    \/ \E name \in Names, metadata \in Outputs :
          nextRunId <= MaxDataRuns /\ XRayRunEnter(name, metadata, FALSE, FALSE)
    \/ \E r \in DOMAIN rscope, name \in Names, input_data \in Outputs,
          reasoning \in Reasonings :
          nextStepId <= MaxDataSteps /\ RunStepEnter(r, name, input_data, reasoning, FALSE, FALSE)
    \/ \E s \in DOMAIN sscope : RunStepExit(s, PyNone, FALSE)
    \/ \E s \in DOMAIN sscope, output \in Outputs :
          InBody(s, 0) /\ stepH[s].output = PyNone /\ StepSetOutput(s, output)
    \/ \E s \in DOMAIN sscope, filters \in Outputs :
          InBody(s, 0) /\ stepH[s].filters_applied = PyNone /\ StepSetFilters(s, filters)
    \/ \E s \in DOMAIN sscope, evaluations \in EvalLists :
          InBody(s, Len(evaluations.v)) /\ ~ sscope[s].evalsPassed
          /\ StepAddEvaluations(s, evaluations)

RoundTripSpec == Init /\ [][RoundTripNext]_vars

\* runs are created as time passes and listed
ListNext ==
    \/ now < MaxListClock /\ Tick
    \/ \E run_id \in 1..MaxListRuns, name \in Names : StoreCreateRun(run_id, name, DictA)
    \/ \E limit \in 0..MaxLimit : StoreListRuns(limit)

ListSpec == Init /\ [][ListNext]_vars

\* runs and steps are created and finished, and read back
GetNext ==
    \/ \E run_id \in StoreIds, name \in Names : StoreCreateRun(run_id, name, DictA)
    \/ \E step_id \in StoreIds, run_id \in StoreIds, name \in Names, index \in 0..MaxIndex,
          reasoning \in Reasonings :
          StoreCreateStep(step_id, run_id, name, index, DictA, reasoning)
    \/ \E step_id \in StoreIds, f \in Finals :
          StoreFinishStep(step_id, 0, f.status, DictA, f.error)
    \/ \E run_id \in 0..MaxStoreIds : StoreGetRun(run_id)
    \/ \E limit \in 0..MaxLimit : StoreListRuns(limit)

GetSpec == Init /\ [][GetNext]_vars

\* several runs, each driven through its own Run handle, with their steps
\* interleaved on one store; the store working
InterleaveNext ==
    \/ \E name \in Names :
          nextRunId <= MaxPairRuns /\ XRayRunEnter(name, DictA, FALSE, FALSE)
    \/ \E r \in DOMAIN rscope :
          \E outcome \in {PyNone, Exc("Exception", "boom"), rscope[r].exc} :
              XRayRunExit(r, outcome, FALSE)
    \/ \E r \in DOMAIN rscope : RunBodyCatch(r)
    \/ \E r \in DOMAIN rscope, name \in Names, reasoning \in Reasonings :
          nextStepId <= MaxPairSteps /\ RunStepEnter(r, name, DictA, reasoning, FALSE, FALSE)
    \/ \E s \in DOMAIN sscope, outcome \in {PyNone, Exc("Exception", "boom")} :
          RunStepExit(s, outcome, FALSE)

InterleaveSpec == Init /\ [][InterleaveNext]_vars

\* step() calls on the handle of one run, their statements interleaved
RaceNext ==
    \/ \E name \in Names : nextRunId <= 1 /\ XRayRunEnter(name, DictA, FALSE, FALSE)
    \/ \E r \in DOMAIN rscope : nextStepId <= MaxRaceCalls /\ StepCallBegin(r)
    \/ \E s \in DOMAIN sscope : StepReadIndex(s)
    \/ \E s \in DOMAIN sscope : StepLoadCounter(s)
    \/ \E s \in DOMAIN sscope : StepStoreCounter(s)
    \/ \E s \in DOMAIN sscope, name \in Names, reasoning \in Reasonings :
          StepCreate(s, name, DictA, reasoning)

RaceSpec == Init /\ [][RaceNext]_vars

\* the body of a step calls the setters and then returns or raises, whatever
\* it raises; the store working
ErrorPathNext ==
    \/ \E name \in Names :
          nextRunId <= MaxDataRuns /\ XRayRunEnter(name, PyNone, FALSE, FALSE)
    \/ \E r \in DOMAIN rscope, name \in Names, reasoning \in Reasonings :
          nextStepId <= MaxDataSteps /\ RunStepEnter(r, name, DictA, reasoning, FALSE, FALSE)
    \/ \E s \in DOMAIN sscope, outcome \in Outcomes : RunStepExit(s, outcome, FALSE)
    \/ \E s \in DOMAIN sscope, output \in Outputs :
          InBody(s, 0) /\ StepSetOutput(s, output)
    \/ \E s \in DOMAIN sscope, filters \in Outputs :
          InBody(s, 0) /\ StepSetFilters(s, filters)
    \/ \E s \in DOMAIN sscope, evaluation \in Evals :
          InBody(s, 1) /\ StepAddEvaluation(s, evaluation)
    \/ \E s \in DOMAIN sscope, evaluations \in EvalLists :
          InBody(s, Len(evaluations.v)) /\ StepAddEvaluations(s, evaluations)

ErrorPathSpec == Init /\ [][ErrorPathNext]_vars

\* ----- what the claims speak of ---------------------------------------------
RunRows(r) == {row \in runs : row.id = r}
StepRows(s) == {row \in steps : row.id = s}
StepsOf(r) == {row \in steps : row.run_id = r}
Indices(r) == {row.step_index : row \in StepsOf(r)}
AllOk(calls) == \A i \in DOMAIN calls : calls[i].ok
Count(calls, op) == Cardinality({i \in DOMAIN calls : calls[i].op = op})

\* the scope of run r was entered, its body has returned or raised, and no
\* store call of the scope failed
RunDone(r) == rscope[r].pc = "exited" /\ rscope[r].entered /\ AllOk(rscope[r].calls)

\* the scope of step s was entered, its body has returned or raised, and no
\* store call of the scope failed
StepDone(s) == sscope[s].pc = "closed" /\ sscope[s].entered /\ AllOk(sscope[s].calls)

\* the entries get_run gives for step s
ReadBack(s) ==
    UNION {{res.steps[i] : i \in {j \in DOMAIN res.steps : res.steps[j].id = s}} :
           res \in {g \in get_run(runs, steps, stepH[s].run_id) : g.t = "run"}}

\* C1: a run scope whose body returns, and whose store calls succeed, leaves
\* exactly one run row with its id, of status success, with ended_at set and
\* duration_ms >= 0.
C1_NormalRunIsSuccess ==
    \A r \in DOMAIN rscope :
        (RunDone(r) /\ rscope[r].raised = PyNone) =>
            /\ Cardinality(RunRows(r)) = 1
            /\ \A row \in RunRows(r) :
                  /\ row.status = "success"
                  /\ row.ended_at # PyNone
                  /\ row.duration_ms # PyNone
                  /\ row.duration_ms.v >= 0

\* a run scope that returned after the clock had moved
C1_Witness ==
    \E r \in DOMAIN rscope :
        /\ RunDone(r) /\ rscope[r].raised = PyNone
        /\ \E row \in RunRows(r) : row.duration_ms = Num(1) /\ row.metadata = Dumps(DictA)

\* C2: a run scope whose body raises an Exception, whatever its message,
\* leaves the run row with status error and error equal to the message, and
\* the exception reaches the caller.  (The claim read in its favour: the
\* store calls succeed and the exception is an Exception.)
C2_RaisedRunIsError ==
    \A r \in DOMAIN rscope :
        (RunDone(r) /\ IsException(rscope[r].raised)) =>
            /\ \A row \in RunRows(r) :
                  row.status = "error" /\ row.error = StrOf(rscope[r].raised)
            /\ rscope[r].out = rscope[r].raised

\* no create_step call of run r failed
NoCreateStepFailed(r) ==
    \A s \in DOMAIN sscope : stepH[s].run_id = r => sscope[s].calls[1].ok

\* the step rows of run r were created in the order of their indices, and
\* get_run gives them in ascending index
InCreationOrder(r) ==
    /\ \A a \in StepsOf(r), b \in StepsOf(r) : a.id < b.id => a.step_index < b.step_index
    /\ \A res \in get_run(runs, steps, r) :
          res.t = "run" =>
              /\ Len(res.steps) = Cardinality(StepsOf(r))
              /\ \A i \in 1..(Len(res.steps) - 1) : res.steps[i].index < res.steps[i + 1].index

\* C3 as claimed: the step rows of a run carry exactly the indices 0..N-1, in
\* creation order, and get_run gives them in ascending index.
C3_IndicesDense ==
    \A r \in DOMAIN rscope :
        /\ Indices(r) = 0..(Cardinality(StepsOf(r)) - 1)
        /\ InCreationOrder(r)

\* C3 amended: the step rows of a run carry distinct indices below the
\* handle's counter, in creation order, and get_run gives them in ascending
\* index; the indices are exactly 0..N-1 when no create_step call of the run
\* failed.
C3_IndicesDenseUnlessCreateFails ==
    \A r \in DOMAIN rscope :
        /\ Cardinality(Indices(r)) = Cardinality(StepsOf(r))
        /\ Indices(r) \subseteq 0..(runH[r].step_index - 1)
        /\ InCreationOrder(r)
        /\ NoCreateStepFailed(r) => Indices(r) = 0..(Cardinality(StepsOf(r)) - 1)

\* a run with two step rows, one of a step that failed and one that succeeded
C3_Witness ==
    \E r \in DOMAIN rscope :
        /\ NoCreateStepFailed(r)
        /\ Indices(r) = {0, 1}
        /\ \E a \in StepsOf(r), b \in StepsOf(r) : a.status = "error" /\ b.status = "success"

\* C4: store.finish_step is called once for a step scope that was entered
\* and left, whether its body returned or raised, and not before it is left.
C4_OneFinishStep ==
    \A s \in DOMAIN sscope :
        sscope[s].entered =>
            /\ Count(sscope[s].calls, "finish_step") = IF sscope[s].pc = "closed" THEN 1 ELSE 0
            /\ \A i \in DOMAIN sscope[s].calls : sscope[s].calls[i].id = s

\* a step scope whose body raised, and one whose body returned
C4_Witness ==
    \E s \in DOMAIN sscope, u \in DOMAIN sscope :
        /\ sscope[s].entered /\ sscope[s].pc = "closed" /\ sscope[s].raised # PyNone
        /\ sscope[u].entered /\ sscope[u].pc = "closed" /\ sscope[u].raised = PyNone

\* C5: store.finish_run is called once for a run scope, after its body has
\* returned or raised and every step scope of the run is left, and not before.
C5_OneFinishRun ==
    \A r \in DOMAIN rscope :
        /\ Count(rscope[r].calls, "finish_run") = IF rscope[r].pc = "exited" THEN 1 ELSE 0
        /\ \A i \in DOMAIN rscope[r].calls : rscope[r].calls[i].id = r
        /\ rscope[r].pc = "exited" =>
              /\ rscope[r].calls[Len(rscope[r].calls)].op = "finish_run"
              /\ OpenSteps(r) = {}

\* a run scope whose body raised after a step of it was left
C5_Witness ==
    \E r \in DOMAIN rscope :
        /\ rscope[r].pc = "exited" /\ rscope[r].entered /\ rscope[r].raised # PyNone
        /\ StepsOf(r) # {}

\* C6: when the body of a step raises an Exception with message m and the
\* body of the run lets it through, the step row and then the run row get
\* status error and error m, the exception reaches the caller of the run
\* scope, and there is one row for the run and one for the step.  (The claim
\* read in its favour: the store calls succeed.)
C6_StepFailureFailsRun ==
    \A s \in DOMAIN sscope :
        LET r == stepH[s].run_id
        IN (/\ StepDone(s) /\ IsException(sscope[s].raised)
            /\ RunDone(r) /\ rscope[r].raised = sscope[s].raised) =>
               /\ \A row \in StepRows(s) :
                     row.status = "error" /\ row.error = StrOf(sscope[s].raised)
               /\ \A row \in RunRows(r) :
                     row.status = "error" /\ row.error = StrOf(sscope[s].raised)
               /\ rscope[r].out = sscope[s].raised
               /\ Cardinality(RunRows(r)) = 1
               /\ Cardinality(StepRows(s)) = 1

\* C7: a run row is created with status running, and once it has another
\* status no call changes it, a second finish_run on its id included.
C7_FinalRunIsImmutable ==
    [][/\ \A row \in runs' : (\A old \in runs : old.id # row.id) => row.status = "running"
       /\ \A row \in runs : row.status # "running" => row \in runs']_vars

\* C8: once the scope of a step is left, the setters change neither what the
\* handle has accumulated nor the step row.
C8_SettersAfterFinishNoEffect ==
    [][\A s \in DOMAIN sscope :
          sscope[s].pc = "closed" =>
              /\ stepH'[s].output = stepH[s].output
              /\ stepH'[s].filters_applied = stepH[s].filters_applied
              /\ stepH'[s].evaluations = stepH[s].evaluations
              /\ {row \in steps' : row.id = s} = StepRows(s)]_vars

\* C9 as claimed: the evaluations get_run gives for a finalized step are the
\* records its body added, in the order of the calls.
C9_EvaluationsReadBack ==
    \A s \in DOMAIN sscope :
        StepDone(s) =>
            /\ ReadBack(s) # {}
            /\ \A e \in ReadBack(s) : e.evaluations = List(sscope[s].added)

\* what get_run gives instead: the records the body added, in the order of
\* the calls, when it added any, and None when it added none (the empty
\* sequence is not stored, see C11).
C9_EvaluationsReadBackOrNone ==
    \A s \in DOMAIN sscope :
        StepDone(s) =>
            /\ ReadBack(s) # {}
            /\ \A e \in ReadBack(s) :
                  e.evaluations = IF sscope[s].added = <<>> THEN PyNone
                                  ELSE List(sscope[s].added)

\* a finalized step whose body added three records in two calls
C9_Witness ==
    \E s \in DOMAIN sscope :
        /\ StepDone(s)
        /\ sscope[s].added = <<DictA, DictB, DictA>>
        /\ \E e \in ReadBack(s) : Len(e.evaluations.v) = 3

\* C10 as claimed: the output and the filters_applied get_run gives for a
\* finalized step are the arguments of the last set_output and set_filters
\* call of its body.
C10_LastWriteWins ==
    \A s \in DOMAIN sscope :
        StepDone(s) =>
            \A e \in ReadBack(s) :
                /\ sscope[s].lastOutput # PyNone => e.output = sscope[s].lastOutput
                /\ sscope[s].lastFilters # PyNone => e.filters_applied = sscope[s].lastFilters

\* what get_run gives instead: the output is the argument of the last
\* set_output call; the filters_applied is the argument of the last
\* set_filters call when that is not empty, and None when it is the empty
\* mapping (which is not stored, see C11).
C10_LastWriteWinsOrNone ==
    \A s \in DOMAIN sscope :
        StepDone(s) =>
            /\ ReadBack(s) # {}
            /\ \A e \in ReadBack(s) :
                  /\ sscope[s].lastOutput # PyNone => e.output = sscope[s].lastOutput
                  /\ sscope[s].lastFilters # PyNone =>
                        e.filters_applied = IF Truthy(sscope[s].lastFilters)
                                            THEN sscope[s].lastFilters ELSE PyNone

\* a finalized step whose body called set_output and set_filters with two
\* different arguments each
C10_Witness ==
    \E s \in DOMAIN sscope :
        /\ StepDone(s)
        /\ sscope[s].outputArgs = {EmptyDict, DictA} /\ sscope[s].lastOutput = DictA
        /\ sscope[s].filterArgs = {EmptyDict, DictA} /\ sscope[s].lastFilters = DictA

\* C11 as claimed: every value given as run metadata, step input, output,
\* filters or evaluations, the empty mapping and the empty sequence
\* included, is the value get_run gives for that field once the step is
\* finalized.
C11_RoundTrip ==
    /\ \A r \in DOMAIN rscope :
          \A res \in get_run(runs, steps, r) :
              res.t = "run" => res.v.metadata = rscope[r].arg
    /\ \A s \in DOMAIN sscope :
          StepDone(s) =>
              /\ ReadBack(s) # {}
              /\ \A e \in ReadBack(s) :
                    /\ e.input = sscope[s].arg
                    /\ sscope[s].lastOutput # PyNone => e.output = sscope[s].lastOutput
                    /\ sscope[s].lastFilters # PyNone =>
                          e.filters_applied = sscope[s].lastFilters
                    /\ sscope[s].evalsPassed => e.evaluations = List(sscope[s].added)

\* C12 as claimed: a run row or a step row has an error message exactly when
\* its status is error.
C12_ErrorIffStatusError ==
    /\ \A row \in runs : (row.error # PyNone) <=> (row.status = "error")
    /\ \A row \in steps : (row.error # PyNone) <=> (row.status = "error")

\* the last call made on the store directly was op, and it returned
Answered(op) == "op" \in DOMAIN reply /\ reply.op = op /\ reply.raised = PyNone

\* the tick of the clock a started_at text stands for
StartedTick(row) ==
    row.started_at.v[1] * TicksPerSecond
    + (IF Len(row.started_at.v) > 1 THEN row.started_at.v[2] ELSE 0)

\* C13: list_runs(limit) gives min(limit, number of runs) run rows, each once,
\* the later started before the earlier, none of the rows left out started
\* after one that is given, and no row carries steps.
C13_ListRunsNewestFirst ==
    Answered("list_runs") =>
        LET res == reply.value
        IN /\ Len(res) = IF reply.arg < Cardinality(runs) THEN reply.arg
                          ELSE Cardinality(runs)
           /\ \A i \in DOMAIN res : \E row \in runs : res[i] = DecodeRun(row)
           /\ \A i \in DOMAIN res, j \in DOMAIN res :
                 i < j => /\ res[i].id # res[j].id
                          /\ StartedTick(res[i]) >= StartedTick(res[j])
           /\ \A row \in runs :
                 (\A i \in DOMAIN res : res[i].id # row.id) =>
                     \A i \in DOMAIN res : StartedTick(res[i]) >= StartedTick(row)
           /\ \A i \in DOMAIN res : "steps" \notin DOMAIN res[i]

\* list_runs(2) over three runs started at three different times, one of
\* them on a whole second and one not
C13_Witness ==
    /\ Answered("list_runs") /\ reply.arg = 2 /\ Len(reply.value) = 2
    /\ Cardinality(runs) = 3
    /\ Cardinality({StartedTick(row) : row \in runs}) = 3
    /\ \E a \in runs, b \in runs :
          Len(a.started_at.v) = 1 /\ Len(b.started_at.v) = 2 /\ a.id < b.id
          /\ StartedTick(a) > StartedTick(b)

\* C14: get_run on an id no run row has gives None and does not raise; on
\* the id of a run row it gives that run with the steps whose run_id is the
\* id, each once, and no other step.
C14_GetRunOrNone ==
    Answered("get_run") =>
        IF RunRows(reply.arg) = {} THEN reply.value = PyNone
        ELSE /\ reply.value.t = "run"
             /\ reply.value.v.id = reply.arg
             /\ Len(reply.value.steps) = Cardinality(StepsOf(reply.arg))
             /\ {reply.value.steps[i].id : i \in DOMAIN reply.value.steps}
                   = {row.id : row \in StepsOf(reply.arg)}

\* get_run on a run that has one step, while the store holds a step of
\* another run
C14_Witness ==
    /\ Answered("get_run") /\ reply.value # PyNone
    /\ Len(reply.value.steps) = 1
    /\ \E row \in steps : row.run_id # reply.arg

\* C15: create_run with the id of a run row raises and changes no row;
\* create_step with the id of a step row raises and changes no row.
C15_DuplicateIdRejected ==
    [][/\ \A run_id \in StoreIds, name \in Names :
             (StoreCreateRun(run_id, name, DictA) /\ RunRows(run_id) # {}) =>
                 reply'.raised # PyNone /\ runs' = runs /\ steps' = steps
       /\ \A step_id \in StoreIds, run_id \in StoreIds, name \in Names,
             reasoning \in Reasonings :
             (StoreCreateStep(step_id, run_id, name, 0, DictA, reasoning)
              /\ StepRows(step_id) # {}) =>
                 reply'.raised # PyNone /\ runs' = runs /\ steps' = steps]_vars

\* create_run was called with the id of a run row that is finalized
C15_Witness ==
    /\ "op" \in DOMAIN reply /\ reply.op = "create_run" /\ reply.raised = IntegrityError
    /\ \A row \in runs : row.status = "error"
    /\ Cardinality(runs) = MaxStoreIds

\* the first store call of a scope, create_run or create_step, failed
CreateFailed(scope) == ~ scope.calls[1].ok

\* the last store call of a scope failed
LastFailed(scope) == ~ scope.calls[Len(scope.calls)].ok

\* C16: when create_run fails in XRay.run the failure reaches the caller, the
\* body is not run, and the scope leaves every run row and step row as it
\* was: no row has the id of the run, neither created nor finalized.
C16_FailedCreateRunLeavesNoTrace ==
    [][\A r \in DOMAIN rscope' :
          CreateFailed(rscope'[r]) =>
              /\ rscope'[r].pc = "exited" /\ ~ rscope'[r].entered
              /\ rscope'[r].out = OperationalError
              /\ \A row \in runs' : row.id # r
              /\ \A row \in steps' : row.run_id # r
              /\ r \notin DOMAIN rscope => runs' = runs /\ steps' = steps]_vars

\* create_run failed for a run scope after another run was finalized
C16_Witness ==
    \E r \in DOMAIN rscope :
        /\ CreateFailed(rscope[r])
        /\ \E row \in runs : row.status = "error" /\ row.id < r

\* C17 as claimed: when create_step fails in Run.step the body is not run
\* and finish_step is not called for the id of the step.
C17_NoFinishWithoutCreate ==
    \A s \in DOMAIN sscope :
        CreateFailed(sscope[s]) =>
            /\ ~ sscope[s].entered
            /\ Count(sscope[s].calls, "finish_step") = 0

\* C18 as claimed: whatever a body raises, an Exception or not, the row of
\* the step and the row of the run get status error, and what was raised
\* reaches the caller.  (The claim read in its favour: the message is not
\* empty and the store calls succeed.)
C18_EveryFailureIsError ==
    /\ \A s \in DOMAIN sscope :
          (StepDone(s) /\ sscope[s].raised # PyNone /\ Truthy(StrOf(sscope[s].raised))) =>
              /\ \A row \in StepRows(s) : row.status = "error"
              /\ sscope[s].out = sscope[s].raised
    /\ \A r \in DOMAIN rscope :
          (RunDone(r) /\ rscope[r].raised # PyNone /\ Truthy(StrOf(rscope[r].raised))) =>
              /\ \A row \in RunRows(r) : row.status = "error"
              /\ rscope[r].out = rscope[r].raised

\* step s is the last step scope of its run
LastStep(s) == \A u \in DOMAIN stepH : stepH[u].run_id = stepH[s].run_id => u <= s

\* C19: when finish_step or finish_run fails after the body raised, the
\* caller gets the failure of the store and not what the body raised; when
\* finish_step fails for a step whose body returned and the run body lets
\* the failure through, the run row gets status error with the message of
\* the failure of the store.
C19_FinalizeFailureTakesPrecedence ==
    /\ \A s \in DOMAIN sscope :
          (sscope[s].entered /\ sscope[s].pc = "closed" /\ sscope[s].raised # PyNone
           /\ LastFailed(sscope[s])) =>
              sscope[s].out = OperationalError
    /\ \A r \in DOMAIN rscope :
          (rscope[r].entered /\ rscope[r].pc = "exited" /\ rscope[r].raised # PyNone
           /\ LastFailed(rscope[r])) =>
              rscope[r].out = OperationalError
    /\ \A s \in DOMAIN sscope :
          LET r == stepH[s].run_id
          IN (/\ sscope[s].entered /\ sscope[s].pc = "closed" /\ sscope[s].raised = PyNone
              /\ LastFailed(sscope[s]) /\ LastStep(s)
              /\ RunDone(r) /\ rscope[r].raised = sscope[s].out) =>
                 /\ RunRows(r) # {}
                 /\ \A row \in RunRows(r) :
                       row.status = "error" /\ row.error = StrOf(OperationalError)
                 /\ rscope[r].out = OperationalError

\* finish_step failed for a step whose body raised, and for a later step
\* whose body returned, whose failure the run body let through
C19_Witness ==
    \E s \in DOMAIN sscope, u \in DOMAIN sscope :
        /\ sscope[s].entered /\ sscope[s].raised = Exc("Exception", "boom")
        /\ sscope[s].pc = "closed" /\ LastFailed(sscope[s])
        /\ sscope[u].entered /\ sscope[u].pc = "closed" /\ sscope[u].raised = PyNone
        /\ LastFailed(sscope[u]) /\ LastStep(u)
        /\ RunDone(stepH[u].run_id)
        /\ rscope[stepH[u].run_id].raised = OperationalError

\* C20 as claimed: once a scope is left, the row that was created for it
\* does not have status running.
C20_NoRowStaysRunning ==
    /\ \A s \in DOMAIN sscope :
          (sscope[s].pc = "closed" /\ ~ CreateFailed(sscope[s])) =>
              \A row \in StepRows(s) : row.status # "running"
    /\ \A r \in DOMAIN rscope :
          (rscope[r].pc = "exited" /\ ~ CreateFailed(rscope[r])) =>
              \A row \in RunRows(r) : row.status # "running"

\* C20 amended: once a scope is left whose create call and finish call
\* succeeded, its row exists and has status success or error; a row whose
\* finish call failed keeps status running.
C20_NoRowStaysRunningUnlessFinishFails ==
    /\ \A s \in DOMAIN sscope :
          (sscope[s].pc = "closed" /\ ~ CreateFailed(sscope[s])) =>
              /\ StepRows(s) # {}
              /\ \A row \in StepRows(s) :
                    IF LastFailed(sscope[s]) THEN row.status = "running"
                    ELSE row.status \in {"success", "error"}
    /\ \A r \in DOMAIN rscope :
          (rscope[r].pc = "exited" /\ ~ CreateFailed(rscope[r])) =>
              /\ RunRows(r) # {}
              /\ \A row \in RunRows(r) :
                    IF LastFailed(rscope[r]) THEN row.status = "running"
                    ELSE row.status \in {"success", "error"}

\* a step whose body raised and its run, which let the exception through,
\* both left with every store call succeeding
C20_Witness ==
    \E s \in DOMAIN sscope :
        /\ StepDone(s) /\ sscope[s].raised = Exc("Exception", "boom")
        /\ RunDone(stepH[s].run_id)
        /\ rscope[stepH[s].run_id].raised = sscope[s].raised
        /\ \E row \in StepRows(s) : row.status = "error"
        /\ \E row \in RunRows(stepH[s].run_id) : row.status = "error"

Terminal(row) == row.status \in {"success", "error"}

\* C21 as claimed: when the row of a run has a terminal status, every step
\* row of the run has one.
C21_StepsFinalBeforeRun ==
    \A run \in runs : Terminal(run) => \A row \in StepsOf(run.id) : Terminal(row)

\* C21 amended: when the row of a run has a terminal status, every step
\* scope of the run is left and has made its finish_step call, before the
\* finish_run call of the run; the row of each step is terminal when that
\* call succeeded and still running when it failed.
C21_StepsFinishedBeforeRun ==
    \A run \in runs :
        Terminal(run) =>
            /\ rscope[run.id].pc = "exited"
            /\ \A s \in DOMAIN sscope :
                  stepH[s].run_id = run.id =>
                      /\ sscope[s].pc = "closed"
                      /\ Count(sscope[s].calls, "finish_step") = 1
                      /\ \A row \in StepRows(s) :
                            IF LastFailed(sscope[s]) THEN row.status = "running"
                            ELSE Terminal(row)

\* a finalized run with two finalized steps, one of status error
C21_Witness ==
    \E run \in runs :
        /\ run.status = "success"
        /\ Cardinality(StepsOf(run.id)) = 2
        /\ \A row \in StepsOf(run.id) : Terminal(row)
        /\ \E row \in StepsOf(run.id) : row.status = "error"

\* the status the row of a scope has by what the scope itself has done
OwnStatus(scope, open) ==
    IF scope.pc = open THEN "running"
    ELSE IF scope.raised = PyNone THEN "success" ELSE "error"

\* C22: with the scopes of several runs interleaved on one store, each step
\* row belongs to the run whose handle opened it, the step indices of each
\* run are 0..N-1 in the order of its own step() calls, and the status of
\* each row is the one its own scope gives it.
C22_RunsAreIsolated ==
    /\ \A row \in steps :
          /\ row.id \in DOMAIN stepH
          /\ row.run_id = stepH[row.id].run_id
          /\ row.step_index =
                Cardinality({u \in DOMAIN stepH : stepH[u].run_id = row.run_id /\ u < row.id})
          /\ row.status = OwnStatus(sscope[row.id], "open")
    /\ \A r \in DOMAIN rscope :
          /\ Cardinality(RunRows(r)) = 1
          /\ Cardinality(StepsOf(r)) = Cardinality({s \in DOMAIN stepH : stepH[s].run_id = r})
          /\ Indices(r) = 0..(Cardinality(StepsOf(r)) - 1)
          /\ \A row \in RunRows(r) : row.status = OwnStatus(rscope[r], "body")

\* two runs, the steps of one opened before and after the step of the other,
\* one run failed and the other not
C22_Witness ==
    \E a \in DOMAIN rscope, b \in DOMAIN rscope :
        /\ Indices(a) = {0, 1} /\ Indices(b) = {0}
        /\ \E x \in StepsOf(a), y \in StepsOf(b), z \in StepsOf(a) : x.id < y.id /\ y.id < z.id
        /\ \E row \in RunRows(a) : row.status = "error"
        /\ \E row \in RunRows(b) : row.status = "success"
        /\ \E row \in StepsOf(b) : row.status = "error"

\* the step() calls made on the handle of run r
CallsOn(r) == {s \in DOMAIN sscope : sscope[s].run_id = r}

\* no step() call on the handle of run r was made while another was getting
\* its index
Sequential(r) == \A s \in CallsOn(r) : sscope[s].racing = {}

\* C23: step() calls made one after the other on a run handle get different
\* indices, the k-th call the index k-1; calls whose statements interleave
\* can get the same index (the witness).
C23_UniqueWhenSequential ==
    \A r \in DOMAIN rscope :
        Sequential(r) =>
            /\ \A s \in CallsOn(r) :
                  sscope[s].pc \notin {"line41"} =>
                      sscope[s].step_index = Cardinality({u \in CallsOn(r) : u < s})
            /\ \A a \in StepsOf(r), b \in StepsOf(r) :
                  a.id # b.id => a.step_index # b.step_index

\* two step rows of one run with the same index, from two calls of which
\* the second was made while the first was getting its index
C23_Witness ==
    \E a \in steps, b \in steps :
        /\ a.id # b.id /\ a.run_id = b.run_id /\ a.step_index = b.step_index
        /\ a.id \in sscope[b.id].racing

\* the step() calls made on the handle of run r before the call of step s
EarlierCalls(s) == {u \in DOMAIN stepH : stepH[u].run_id = stepH[s].run_id /\ u < s}

\* C24: the k-th step() call on a run handle gets index k-1, whether the
\* calls before it succeeded, failed in the body or failed in create_step;
\* the counter of the handle is the number of calls made, and no index is
\* given twice.
C24_KthCallGetsIndex ==
    /\ \A s \in DOMAIN stepH :
          /\ stepH[s].index = Cardinality(EarlierCalls(s))
          /\ \A u \in EarlierCalls(s) : stepH[u].index < stepH[s].index
    /\ \A r \in DOMAIN runH :
          runH[r].step_index = Cardinality({s \in DOMAIN stepH : stepH[s].run_id = r})

\* a second call that got index 1 after a call that failed in create_step
C24_Witness ==
    \E s \in DOMAIN stepH :
        /\ stepH[s].index = 1
        /\ \E u \in EarlierCalls(s) : CreateFailed(sscope[u])

\* C25: finish_run with an id no run row has, and finish_step with an id no
\* step row has, raise nothing and leave every row as it was.
C25_FinishOfAbsentIdIsNoOp ==
    [][/\ \A run_id \in StoreIds, f \in Finals :
             (StoreFinishRun(run_id, 0, f.status, f.error) /\ RunRows(run_id) = {}) =>
                 reply'.raised = PyNone /\ runs' = runs /\ steps' = steps
       /\ \A step_id \in StoreIds, f \in Finals :
             (StoreFinishStep(step_id, 0, f.status, DictA, f.error)
              /\ StepRows(step_id) = {}) =>
                 reply'.raised = PyNone /\ runs' = runs /\ steps' = steps]_vars

\* finish_step was called while the store held runs and no step
C25_Witness ==
    /\ "op" \in DOMAIN reply /\ reply.op = "finish_step" /\ reply.raised = PyNone
    /\ steps = {} /\ Cardinality(runs) = MaxStoreIds

\* C26 as claimed: the run_id of every step row is the id of a run row.
C26_StepsHaveRuns ==
    \A row \in steps : RunRows(row.run_id) # {}

\* C27 as claimed: a step whose body raised after calling the setters is read
\* back with status error and with the output, the filters and the
\* evaluations its body had given.
C27_ErrorPathKeepsData ==
    \A s \in DOMAIN sscope :
        (StepDone(s) /\ sscope[s].raised # PyNone) =>
            /\ ReadBack(s) # {}
            /\ \A e \in ReadBack(s) :
                  /\ e.status = "error"
                  /\ sscope[s].lastOutput # PyNone => e.output = sscope[s].lastOutput
                  /\ sscope[s].lastFilters # PyNone =>
                        e.filters_applied = sscope[s].lastFilters
                  /\ sscope[s].evalsPassed => e.evaluations = List(sscope[s].added)

\* C28 as claimed: the row of a run has status error exactly when the body
\* of the run raised, so a step failure the body caught leaves the run with
\* status success; and the row of a step has status error exactly when the
\* body of that step raised, whatever the other steps of the run did.  (The
\* claim read in its favour: the store calls succeed.)
C28_StatusFollowsOwnBody ==
    /\ \A r \in DOMAIN rscope :
          RunDone(r) =>
              \A row \in RunRows(r) : (row.status = "error") <=> (rscope[r].raised # PyNone)
    /\ \A s \in DOMAIN sscope :
          StepDone(s) =>
              \A row \in StepRows(s) : (row.status = "error") <=> (sscope[s].raised # PyNone)

\* C29: a list_runs call and a get_run call leave every run row and every
\* step row as it was, whatever the store holds and whatever the argument.
C29_QueriesAreReadOnly ==
    [][("op" \in DOMAIN reply' /\ reply'.op \in {"list_runs", "get_run"}) =>
           runs' = runs /\ steps' = steps]_vars

\* list_runs gave two runs while the store held steps, one of them finished
C29_Witness ==
    /\ Answered("list_runs") /\ Len(reply.value) = 2
    /\ \E row \in steps : row.status = "error"

\* the run scopes whose body is running
OpenRuns == {r \in DOMAIN rscope : rscope[r].pc = "body"}

\* C30 as claimed: get_current_run gives None when no run scope is open, and
\* the handle of an open run scope when there is one, also after another
\* scope, entered later, has been left.  (The claim read in its favour: the
\* store calls succeed.)
C30_CurrentRunIsOpenScope ==
    (\A r \in DOMAIN rscope : AllOk(rscope[r].calls)) =>
        IF OpenRuns = {} THEN current_run = PyNone
        ELSE current_run # PyNone /\ current_run.v \in OpenRuns

====
